---- MODULE Spec2Model ----
(***************************************************************************)
(* The two agent loops of mini-agent: the free-text loop of                *)
(* chain_of_thought_agent.py (CotAgent) and the structured tool-call loop  *)
(* of function_call_agent.py (FunctionCallAgent).                          *)
(*                                                                         *)
(* A Python str is a sequence of symbols.  The markers the code searches   *)
(* for are spelled symbol by symbol, so that the offsets 3, 5 and 8 of the *)
(* source are the offsets of the model.  A JSON text is a sequence of      *)
(* JSON tokens, and json.loads is a parser over them.                      *)
(***************************************************************************)
EXTENDS Integers, Sequences, FiniteSets, TLC

VARIABLES
    variant,               \* which agent class was constructed: "cot" or "fc"
    \* ---- CotAgent (chain_of_thought_agent.py)
    cot_pc,                \* "idle", "loop", "answered", "exhausted", "raised"
    messages,              \* the local list `messages` of CotAgent.run
    i,                     \* rounds of `for i in range(max_iterations)` begun
    state,                 \* self.state : AgentState
    cot_result,            \* what run returned (None before it returns)
    response,              \* the text _call_llm returned in the latest round
    dispatched,            \* the _run_tool calls of the latest round
    llm_calls,             \* calls of _call_llm in this run
    cot_sent,              \* the message list handed to the latest _call_llm
    all_failed,            \* every _call_llm of this run so far caught an exception
    \* ---- FunctionCallAgent (function_call_agent.py)
    fc_pc,                 \* "idle", "loop", "stream", "yield", "answered", "exhausted",
                           \* "raised", "closed"
    conversation_history,  \* self.conversation_history
    iteration,             \* the local `iteration` of FunctionCallAgent.run
    response_content,      \* the local `response_content` of the round
    tool_calls,            \* the local `tool_calls` of the round
    pending,               \* tool-call deltas of the chunk suspended at its yield
    deltas,                \* tool-call deltas of this round, in arrival order
    yielded,               \* text deltas yielded to the consumer in this round
    executed,              \* the _execute_tool calls of the latest round
    chunks,                \* fragments the model client delivered in this run
    fc_calls,              \* chat.completions.create calls of this run
    fc_sent,               \* the message list handed to the latest create call
    \* ---- the caller
    runs,                  \* calls of run on this agent so far
    prev,                  \* how the previous run on this agent ended
    query,                 \* the query of the current run
    error                  \* the exception that left run ("none": none did)

cotVars == <<cot_pc, messages, i, state, cot_result, response, dispatched,
             llm_calls, cot_sent, all_failed>>
fcVars == <<fc_pc, conversation_history, iteration, response_content, tool_calls,
            pending, deltas, yielded, executed, chunks, fc_calls, fc_sent>>
vars == <<variant, cotVars, fcVars, runs, prev, query, error>>

(***************************************************************************)
(* Python values                                                           *)
(***************************************************************************)
\* Python's None where a str is expected: no text holds this symbol.
None == <<"None">>
\* Python's None where a name or an id is expected.
NoneName == "None"

Min(S) == CHOOSE x \in S : \A y \in S : x <= y

\* str.find(sub, start), 0-based; -1 when sub does not occur at or after start.
Find(text, sub, start) ==
    LET cands == { p \in start..(Len(text) - Len(sub)) :
                     \A j \in 1..Len(sub) : text[p + j] = sub[j] }
    IN  IF cands = {} THEN -1 ELSE Min(cands)

\* text[a:b] for 0 <= a, 0 <= b.
Slice(text, a, b) ==
    LET hi == IF b > Len(text) THEN Len(text) ELSE b
    IN  IF a >= hi THEN <<>> ELSE SubSeq(text, a + 1, hi)

\* text[a:]
SliceFrom(text, a) == Slice(text, a, Len(text))

Whitespace == {"SP", "NL"}

\* str.strip()
Strip(text) ==
    LET keep == { p \in 1..Len(text) : text[p] \notin Whitespace }
    IN  IF keep = {} THEN <<>>
        ELSE SubSeq(text, Min(keep), CHOOSE p \in keep : \A q \in keep : q <= p)

\* sub in text
Contains(text, sub) == Find(text, sub, 0) >= 0

(***************************************************************************)
(* The literals of the source                                              *)
(***************************************************************************)
\* the thought marker, 3 characters (chain_of_thought_agent.py:165)
ThoughtMarker == <<"Si", "Kao", "Colon">>
\* the final-answer marker, 5 characters (chain_of_thought_agent.py:179)
FinalMarker == <<"Zui", "Zhong", "Da", "An", "Colon">>
\* the opening fence: three backquotes, json, newline; 8 characters (:152)
FenceOpen == <<"BQ", "BQ", "BQ", "j", "s", "o", "n", "NL">>
\* the closing fence: newline, three backquotes; 4 characters (:153)
FenceClose == <<"NL", "BQ", "BQ", "BQ">>
\* two newlines (:166)
BlankLine == <<"NL", "NL">>
\* the observation marker (:264)
ObservationMarker == <<"Guan", "Cha", "Colon">>
\* the exhaustion message (:266)
ExhaustedMessage == <<"MaxIterationsReached">>
\* the prefix of the stand-in for a failed model call (:200)
LlmErrorPrefix == <<"LlmError", "SP">>
\* the prefixes of the calculator result and error (:79, :81)
CalcResultPrefix == <<"CalcResult", "SP">>
CalcErrorPrefix == <<"CalcError", "SP">>
\* the unknown-tool message, around the quoted name (:187)
NoToolPrefix == <<"NoSuchTool", "SP", "'">>
\* the tool-error message of _process_tool_calls, around the name (:153)
ExecErrorPrefix == <<"ExecError", "SP">>
ExecErrorInfix == <<"SP", "failed", "SP">>
\* the search result, around the quoted query (:104)
SearchPrefix == <<"SearchResultFor", "'">>
SearchSuffix == <<"'", "SearchResultTail">>

\* self.max_iterations
MaxIterations == 5

\* Bounds of the model: the runs on one agent, the chunks the model client
\* delivers in one run, and the chunks of one run on a reused agent.
MaxRuns == 2
MaxChunks == 3
FewMaxChunks == 2

(***************************************************************************)
(* JSON: values, tokens and json.loads                                     *)
(***************************************************************************)
JNull == [t |-> "null"]
JStr(s) == [t |-> "str", s |-> s]
JNum(n) == [t |-> "num", n |-> n]
JArr(a) == [t |-> "arr", a |-> a]
JObj(o) == [t |-> "obj", o |-> o]
EmptyDict == [k \in {} |-> JNull]

\* The string literals that occur in the model's JSON texts, each one token.
StringTokens == {"'tool'", "'tool_input'", "'calculator'", "'Calculator'",
                 "'search'", "'foo'", "'expression'", "'query'", "'1+1'",
                 "'1/0'", "'ai'", "'x'"}
Unquote(tok) ==
    CASE tok = "'tool'" -> "tool"
      [] tok = "'tool_input'" -> "tool_input"
      [] tok = "'calculator'" -> "calculator"
      [] tok = "'Calculator'" -> "Calculator"
      [] tok = "'search'" -> "search"
      [] tok = "'foo'" -> "foo"
      [] tok = "'expression'" -> "expression"
      [] tok = "'query'" -> "query"
      [] tok = "'1+1'" -> "1+1"
      [] tok = "'1/0'" -> "1/0"
      [] tok = "'ai'" -> "ai"
      [] tok = "'x'" -> "x"
NumberTokens == {"0", "1"}
NumberOf(tok) == IF tok = "0" THEN 0 ELSE 1

ParseFail == [ok |-> FALSE, val |-> JNull, next |-> 0]
ParseOk(v, n) == [ok |-> TRUE, val |-> v, next |-> n]

\* The first position at or after p (1-based) that holds no JSON whitespace.
SkipWs(toks, p) ==
    LET rest == { q \in p..Len(toks) : toks[q] \notin Whitespace }
    IN  IF rest = {} THEN Len(toks) + 1 ELSE Min(rest)

RECURSIVE ParseValue(_, _)
RECURSIVE ParseMembers(_, _, _)
RECURSIVE ParseElements(_, _, _)

\* json.decoder: one value starting at or after position p.
ParseValue(toks, p) ==
    LET q == SkipWs(toks, p)
    IN  IF q > Len(toks) THEN ParseFail
        ELSE LET c == toks[q]
                 r == SkipWs(toks, q + 1)
             IN  CASE c \in StringTokens -> ParseOk(JStr(Unquote(c)), q + 1)
                   [] c \in NumberTokens -> ParseOk(JNum(NumberOf(c)), q + 1)
                   [] c = "null" -> ParseOk(JNull, q + 1)
                   [] c = "{" ->
                        IF r <= Len(toks) /\ toks[r] = "}"
                        THEN ParseOk(JObj(EmptyDict), r + 1)
                        ELSE ParseMembers(toks, r, EmptyDict)
                   [] c = "[" ->
                        IF r <= Len(toks) /\ toks[r] = "]"
                        THEN ParseOk(JArr(<<>>), r + 1)
                        ELSE ParseElements(toks, r, <<>>)
                   [] OTHER -> ParseFail

\* JSONObject: the members of an object from position p (a key is due), acc
\* holding the members read so far; a repeated key keeps its last value.
ParseMembers(toks, p, acc) ==
    IF p > Len(toks) \/ toks[p] \notin StringTokens THEN ParseFail
    ELSE LET key == Unquote(toks[p])
             c == SkipWs(toks, p + 1)
         IN  IF c > Len(toks) \/ toks[c] # ":" THEN ParseFail
             ELSE LET v == ParseValue(toks, c + 1)
                  IN  IF ~v.ok THEN ParseFail
                      ELSE LET e == SkipWs(toks, v.next)
                               acc2 == [k \in (DOMAIN acc) \cup {key} |->
                                           IF k = key THEN v.val ELSE acc[k]]
                           IN  IF e > Len(toks) THEN ParseFail
                               ELSE IF toks[e] = "}" THEN ParseOk(JObj(acc2), e + 1)
                               ELSE IF toks[e] = ","
                                    THEN ParseMembers(toks, SkipWs(toks, e + 1), acc2)
                               ELSE ParseFail

\* JSONArray: the elements of an array from position p.
ParseElements(toks, p, acc) ==
    LET v == ParseValue(toks, p)
    IN  IF ~v.ok THEN ParseFail
        ELSE LET e == SkipWs(toks, v.next)
                 acc2 == Append(acc, v.val)
             IN  IF e > Len(toks) THEN ParseFail
                 ELSE IF toks[e] = "]" THEN ParseOk(JArr(acc2), e + 1)
                 ELSE IF toks[e] = "," THEN ParseElements(toks, e + 1, acc2)
                 ELSE ParseFail

\* json.loads(text): [ok, val]; ok = FALSE stands for JSONDecodeError.
JsonLoads(text) ==
    LET v == ParseValue(text, 1)
    IN  IF v.ok /\ SkipWs(text, v.next) > Len(text)
        THEN [ok |-> TRUE, val |-> v.val]
        ELSE [ok |-> FALSE, val |-> JNull]

\* bool(v) of a parsed JSON value.
Truthy(v) ==
    CASE v.t = "null" -> FALSE
      [] v.t = "str" -> v.s # ""
      [] v.t = "num" -> v.n # 0
      [] v.t = "arr" -> v.a # <<>>
      [] v.t = "obj" -> DOMAIN v.o # {}

IsDict(v) == v.t = "obj"
IsStr(v) == v.t = "str"

\* dict.get(key, default) on a parsed JSON object.
DictGet(v, key, default) == IF key \in DOMAIN v.o THEN v.o[key] ELSE default

\* str(v) as an f-string renders a parsed JSON value, one symbol per value.
Str(v) == IF v.t = "str" THEN <<v.s>> ELSE <<"repr">>

(***************************************************************************)
(* The tools                                                               *)
(***************************************************************************)
\* self.tools, in list order.
Tools == <<"calculator", "search">>

Returned(text, tool) == [raised |-> FALSE, text |-> text, invoked |-> tool]
Raised(tool) == [raised |-> TRUE, text |-> <<"TypeError">>, invoked |-> tool]

\* eval(expression, {"__builtins__": {}}, {}) on the expressions of the model:
\* "1+1" evaluates to 2; every other string raises (ZeroDivisionError,
\* NameError), and an expression that is no string raises TypeError.
Eval(expression) ==
    IF expression.t = "str" /\ expression.s = "1+1"
    THEN [ok |-> TRUE, text |-> <<"2">>]
    ELSE [ok |-> FALSE, text |-> <<"exception">>]

\* CalculatorTool.run(expression) / CalculatorTool.execute(expression)
CalculatorRun(expression) ==
    LET r == Eval(expression)
    IN  IF r.ok THEN CalcResultPrefix \o r.text ELSE CalcErrorPrefix \o r.text

\* SearchTool.run(query) / SearchTool.execute(query)
SearchRun(query_) == SearchPrefix \o Str(query_) \o SearchSuffix

\* tool.run(**kwargs): the call binds the mapping's keys to the method's one
\* parameter; a missing or an unexpected key, or a kwargs that is no mapping,
\* raises TypeError before the body runs.
CallTool(tool, kwargs) ==
    LET param == IF tool = "calculator" THEN "expression" ELSE "query"
    IN  IF kwargs.t # "obj" THEN Raised(NoneName)
        ELSE IF DOMAIN kwargs.o # {param} THEN Raised(NoneName)
        ELSE IF tool = "calculator"
             THEN Returned(CalculatorRun(kwargs.o[param]), tool)
             ELSE Returned(SearchRun(kwargs.o[param]), tool)

\* The message for a name that matches no tool.
NoSuchTool(tool_name) == NoToolPrefix \o <<tool_name>> \o <<"'">>

\* _run_tool as it would be if names were compared without regard to case.
Lower(name) == IF name = "Calculator" THEN "calculator" ELSE name
RunToolIgnoringCase(tool_name, tool_input) ==
    LET hits == { k \in 1..Len(Tools) : Tools[k] = Lower(tool_name) }
    IN  IF hits = {} THEN Returned(NoSuchTool(tool_name), NoneName)
        ELSE CallTool(Tools[Min(hits)], tool_input)

\* CotAgent._run_tool(tool_name, tool_input)
RunTool(tool_name, tool_input) ==
    LET hits == { k \in 1..Len(Tools) : Tools[k] = tool_name }
    IN  IF hits = {} THEN Returned(NoSuchTool(tool_name), NoneName)
        ELSE CallTool(Tools[Min(hits)], tool_input)

\* FunctionCallAgent._execute_tool(tool_name, arguments)
ExecuteTool(tool_name, arguments) ==
    LET hits == { k \in 1..Len(Tools) : Tools[k] = tool_name }
    IN  IF hits = {} THEN Returned(NoSuchTool(tool_name), NoneName)
        ELSE CallTool(Tools[Min(hits)], arguments)

(***************************************************************************)
(* CotAgent: the extractors                                                *)
(***************************************************************************)
\* CotAgent._extract_thought(text)
ExtractThought(text) ==
    LET thought_start == Find(text, ThoughtMarker, 0) + 3
        thought_end == Find(text, BlankLine, thought_start)
    IN  IF thought_start < 3 THEN <<>>
        ELSE IF thought_end < 0 THEN Strip(Slice(text, thought_start, Len(text)))
        ELSE Strip(Slice(text, thought_start, thought_end))

\* CotAgent._extract_final_answer(text): None, or the stripped rest.
ExtractFinalAnswer(text) ==
    IF ~Contains(text, FinalMarker) THEN None
    ELSE LET answer_start == Find(text, FinalMarker, 0) + 5
         IN  Strip(SliceFrom(text, answer_start))

\* _extract_action as it would be if the last opening fence were the anchor.
ExtractActionLastFence(text) ==
    LET opens == { p \in 0..(Len(text) - 8) : SubSeq(text, p + 1, p + 8) = FenceOpen }
        action_start == IF opens = {} THEN 7
                        ELSE (CHOOSE p \in opens : \A q \in opens : q <= p) + 8
        action_end == Find(text, FenceClose, action_start)
    IN  IF action_start < 8 \/ action_end < 0 THEN JNull
        ELSE LET parsed == JsonLoads(Strip(Slice(text, action_start, action_end)))
             IN  IF parsed.ok THEN parsed.val ELSE JNull

\* CotAgent._extract_action(text): the parsed JSON value; JNull is None, both
\* for "no action" and for a block holding the JSON null.
ExtractAction(text) ==
    LET action_start == Find(text, FenceOpen, 0) + 8
        action_end == Find(text, FenceClose, action_start)
    IN  IF action_start < 8 \/ action_end < 0 THEN JNull
        ELSE LET parsed == JsonLoads(Strip(Slice(text, action_start, action_end)))
             IN  IF parsed.ok THEN parsed.val ELSE JNull

\* `if final_answer:` / `if thought:` on an Optional[str].
StrTruthy(s) == s # None /\ s # <<>>

\* Action(tool=tool_name, tool_input=tool_input): pydantic accepts a str tool
\* and a dict tool_input; anything else is a ValidationError.
ActionValid(tool_name, tool_input) == IsStr(tool_name) /\ IsDict(tool_input)

\* action.get("tool") and action.get("tool_input", {})
ToolNameOf(action) == DictGet(action, "tool", JNull)
ToolInputOf(action) == DictGet(action, "tool_input", JObj(EmptyDict))

(***************************************************************************)
(* What the model client may answer (free-text variant)                    *)
(***************************************************************************)
Fence(json) == FenceOpen \o json \o FenceClose
ActionJson(tool, input) ==
    <<"{", "NL", "'tool'", ":", "SP", tool, ",", "NL", "'tool_input'", ":", "SP">>
        \o input \o <<"NL", "}">>
Thinking == ThoughtMarker \o <<"a", "NL", "NL">>

ExprOk == <<"{", "'expression'", ":", "SP", "'1+1'", "}">>
ExprBad == <<"{", "'expression'", ":", "SP", "'1/0'", "}">>
ExprExtra == <<"{", "'expression'", ":", "'1+1'", ",", "'query'", ":", "'ai'", "}">>
QueryOk == <<"{", "'query'", ":", "SP", "'ai'", "}">>
NoArgs == <<"{", "}">>

cPlain == <<"a", "SP", "b">>
cThought == ThoughtMarker \o <<"SP", "a", "NL", "b">>
cFinal == Thinking \o FinalMarker \o <<"SP", "b", "NL">>
cFinalBlank == Thinking \o FinalMarker \o <<"SP", "NL">>
cFinalAndAction ==
    Fence(ActionJson("'calculator'", ExprOk)) \o <<"NL">> \o FinalMarker \o <<"b">>
cActionBlankFinal ==
    Fence(ActionJson("'calculator'", ExprOk)) \o <<"NL">> \o FinalMarker \o <<"NL">>
cCalc == Thinking \o Fence(ActionJson("'calculator'", ExprOk))
cCalcBad == Fence(ActionJson("'calculator'", ExprBad))
cCalcMissing == Fence(ActionJson("'calculator'", NoArgs))
cCalcExtra == Fence(ActionJson("'calculator'", ExprExtra))
cSearch == Fence(ActionJson("'search'", QueryOk))
cUnknown == Fence(ActionJson("'foo'", NoArgs))
cWrongCase == Fence(ActionJson("'Calculator'", ExprOk))
cMalformed == Fence(<<"{", "'tool'", ":">>)
cEmptyObject == Fence(NoArgs)
cList == Fence(<<"[", "1", "]">>)
cNoToolKey == Fence(<<"{", "'tool_input'", ":", "{", "}", "}">>)
cInputNotDict == Fence(ActionJson("'calculator'", <<"'1+1'">>))
cNoInputKey == Fence(<<"{", "'tool'", ":", "'foo'", "}">>)
cUnclosed == FenceOpen \o ActionJson("'calculator'", ExprOk)
cTwoFences == Fence(<<"{", "'tool'", ":">>) \o <<"NL">>
                \o Fence(ActionJson("'calculator'", ExprOk))
cTwoActions == Fence(ActionJson("'calculator'", NoArgs)) \o <<"NL">>
                 \o Fence(ActionJson("'search'", QueryOk))
cStrayClose == <<"a">> \o FenceClose \o <<"NL">> \o Fence(<<"[", "1", "]">>)

\* response.choices[0].message.content of a call that succeeds.
Completions ==
    { cPlain, cThought, cFinal, cFinalBlank, cFinalAndAction, cActionBlankFinal,
      cCalc, cCalcBad, cCalcMissing, cCalcExtra, cSearch, cUnknown, cWrongCase,
      cMalformed, cEmptyObject, cList, cNoToolKey, cInputNotDict, cNoInputKey,
      cUnclosed, cTwoFences, cTwoActions, cStrayClose }

\* str(e) of the exceptions of a call that fails: a plain text, and a text
\* that holds the final-answer marker (as an error that quotes the prompt).
LlmErrors == { <<"timeout">>, <<"bad", "SP">> \o FinalMarker \o <<"SP", "x">> }

\* The stand-in text of line 200 for a failure whose str(e) is e.
StandIn(e) == LlmErrorPrefix \o e
IsStandIn(text) == \E e \in LlmErrors : text = StandIn(e)

\* CotAgent._call_llm(messages): the completion, or the stand-in for a failure.
CallLlm == Completions \cup { StandIn(e) : e \in LlmErrors }

\* The completions of the runs on a reused agent.
FewCompletions == { cPlain, cFinal, cCalc }

Queries == { "q1", "q2" }
SystemPromptCot == <<"SystemPromptCot">>
SystemPromptFc == <<"SystemPromptFc">>

(***************************************************************************)
(* CotAgent.run                                                            *)
(***************************************************************************)
\* AgentState()
FreshState ==
    [thoughts |-> <<>>, observations |-> <<>>, actions |-> <<>>, final_answer |-> None]

Msg(role, content) == [role |-> role, content |-> content]

\* Lines 219-235 as they would be if the stand-in for a failed call were not
\* searched for a thought, an answer or an action.
ExtractSkippingStandIn(text) ==
    IF IsStandIn(text)
    THEN [thought |-> <<>>, final_answer |-> None, action |-> JNull]
    ELSE [thought |-> ExtractThought(text),
          final_answer |-> ExtractFinalAnswer(text),
          action |-> ExtractAction(text)]

\* What one round extracts from the text the model returned: lines 219, 228
\* and 235.
Extract(text) ==
    [thought |-> ExtractThought(text),
     final_answer |-> ExtractFinalAnswer(text),
     action |-> ExtractAction(text)]

\* Extract, tabulated over the texts the model client may return.
Extracted == [text \in CallLlm |-> Extract(text)]

\* state.thoughts after step 2 of a round (lines 220-225).
WithThought(st, text) ==
    IF StrTruthy(Extracted[text].thought)
    THEN [st EXCEPT !.thoughts =
            Append(@, [thought |-> Extracted[text].thought,
                       reasoning |-> <<>>, plan |-> <<>>])]
    ELSE st

\* The seed of the log and of the loop: lines 206-209.
CotBegin(query_) ==
    /\ messages' = << Msg("system", SystemPromptCot), Msg("user", <<query_>>) >>
    /\ i' = 0
    /\ cot_pc' = "loop"
    /\ cot_result' = None
    /\ response' = None
    /\ dispatched' = <<>>
    /\ llm_calls' = 0
    /\ cot_sent' = <<>>
    /\ all_failed' = TRUE
    /\ runs' = runs + 1
    /\ query' = query_
    /\ error' = "none"
    /\ UNCHANGED <<variant, state, fcVars>>

\* agent.run(query) on the agent just constructed.
CotRun(queries) ==
    /\ variant = "cot" /\ cot_pc = "idle"
    /\ \E q \in queries : CotBegin(q)
    /\ prev' = prev

\* One round begins: the model is called with the whole log (line 215).
CotCalled(resp) ==
    /\ variant = "cot" /\ cot_pc = "loop" /\ i < MaxIterations
    /\ i' = i + 1
    /\ response' = resp
    /\ llm_calls' = llm_calls + 1
    /\ cot_sent' = messages
    /\ all_failed' = (all_failed /\ IsStandIn(resp))
    /\ UNCHANGED <<variant, fcVars, runs, prev, query>>

\* A round that finds a final answer: lines 228-232.
CotAnswer(menu) ==
    \E resp \in menu :
        /\ CotCalled(resp)
        /\ StrTruthy(Extracted[resp].final_answer)
        /\ state' = [WithThought(state, resp) EXCEPT
                        !.final_answer = Extracted[resp].final_answer]
        /\ cot_result' = Extracted[resp].final_answer
        /\ cot_pc' = "answered"
        /\ dispatched' = <<>>
        /\ UNCHANGED <<messages, error>>

\* Lines 235-238 as they would be if the round told the model that no valid
\* action was found.
CotNoActionWithNotice(menu) ==
    \E resp \in menu :
        /\ CotCalled(resp)
        /\ ~StrTruthy(Extracted[resp].final_answer)
        /\ ~Truthy(Extracted[resp].action)
        /\ state' = WithThought(state, resp)
        /\ dispatched' = <<>>
        /\ messages' = messages \o
              << Msg("assistant", resp), Msg("user", <<"NoValidAction">>) >>
        /\ UNCHANGED <<cot_result, cot_pc, error>>

\* A round that finds neither an answer nor an action: lines 235-238.
CotNoAction(menu) ==
    \E resp \in menu :
        /\ CotCalled(resp)
        /\ ~StrTruthy(Extracted[resp].final_answer)
        /\ ~Truthy(Extracted[resp].action)
        /\ state' = WithThought(state, resp)
        /\ dispatched' = <<>>
        /\ UNCHANGED <<messages, cot_result, cot_pc, error>>

\* Lines 240-264 as they would be if the observation went into the log but
\* were not recorded in the state.
CotActUnrecorded(menu) ==
    \E resp \in menu :
        LET action == Extracted[resp].action
            tool_name == ToolNameOf(action)
            tool_input == ToolInputOf(action)
            ran == RunTool(tool_name.s, tool_input)
            observation == ran.text
        IN  /\ CotCalled(resp)
            /\ ~StrTruthy(Extracted[resp].final_answer)
            /\ Truthy(action) /\ IsDict(action)
            /\ ActionValid(tool_name, tool_input)
            /\ ~ran.raised
            /\ state' = [WithThought(state, resp) EXCEPT
                  !.actions = Append(@, [tool |-> tool_name.s, tool_input |-> tool_input])]
            /\ dispatched' = <<[name |-> tool_name.s, result |-> observation,
                                invoked |-> ran.invoked]>>
            /\ messages' = messages \o
                  << Msg("assistant", resp),
                     Msg("user", ObservationMarker \o observation) >>
            /\ UNCHANGED <<cot_result, cot_pc, error>>

\* A round that dispatches its action and records the observation: lines 240-264.
CotAct(menu) ==
    \E resp \in menu :
        LET action == Extracted[resp].action
            tool_name == ToolNameOf(action)
            tool_input == ToolInputOf(action)
            ran == RunTool(tool_name.s, tool_input)
            observation == ran.text
        IN  /\ CotCalled(resp)
            /\ ~StrTruthy(Extracted[resp].final_answer)
            /\ Truthy(action) /\ IsDict(action)
            /\ ActionValid(tool_name, tool_input)
            /\ ~ran.raised
            /\ state' = [WithThought(state, resp) EXCEPT
                  !.actions = Append(@, [tool |-> tool_name.s, tool_input |-> tool_input]),
                  !.observations = Append(@,
                      [content |-> observation,
                       tool_calls |-> <<[name |-> tool_name.s, arguments |-> tool_input]>>])]
            /\ dispatched' = <<[name |-> tool_name.s, result |-> observation,
                                invoked |-> ran.invoked]>>
            /\ messages' = messages \o
                  << Msg("assistant", resp),
                     Msg("user", ObservationMarker \o observation) >>
            /\ UNCHANGED <<cot_result, cot_pc, error>>

\* A round in which an exception leaves run: action.get on a value that is no
\* dict (line 240), Action(...) refusing its fields (line 247), or the tool
\* call raising out of _run_tool (line 253, after the action was recorded).
CotRaise(menu) ==
    \E resp \in menu :
        LET action == Extracted[resp].action
            tool_name == ToolNameOf(action)
            tool_input == ToolInputOf(action)
            atTool == IsDict(action) /\ ActionValid(tool_name, tool_input)
        IN  /\ CotCalled(resp)
            /\ ~StrTruthy(Extracted[resp].final_answer)
            /\ Truthy(action)
            /\ \/ ~IsDict(action)
               \/ IsDict(action) /\ ~ActionValid(tool_name, tool_input)
               \/ atTool /\ RunTool(tool_name.s, tool_input).raised
            /\ state' = IF atTool
                        THEN [WithThought(state, resp) EXCEPT
                                !.actions = Append(@, [tool |-> tool_name.s,
                                                       tool_input |-> tool_input])]
                        ELSE WithThought(state, resp)
            /\ dispatched' = IF atTool
                             THEN <<[name |-> tool_name.s, result |-> None,
                                     invoked |-> NoneName]>>
                             ELSE <<>>
            /\ cot_pc' = "raised"
            /\ error' = IF ~IsDict(action) THEN "AttributeError"
                         ELSE IF ~ActionValid(tool_name, tool_input) THEN "ValidationError"
                         ELSE "TypeError"
            /\ UNCHANGED <<messages, cot_result>>

\* tool_name as `tool.name == tool_name` and the f-string of line 187 see it.
PyName(v) ==
    CASE v.t = "str" -> v.s
      [] v.t = "null" -> NoneName
      [] OTHER -> "repr"

\* One round of the loop of run with the AgentState steps (lines 220-225, 230,
\* 247-250, 257-260) taken out: from the log and the text _call_llm returned,
\* where control goes, the log, the return value and the _run_tool calls.
BareRound(log, text) ==
    LET action == Extracted[text].action
        tool_name == ToolNameOf(action)
        tool_input == ToolInputOf(action)
        ran == RunTool(PyName(tool_name), tool_input)
        stay == [pc |-> "loop", messages |-> log, result |-> None, tools |-> <<>>]
    IN  IF StrTruthy(Extracted[text].final_answer)
        THEN [stay EXCEPT !.pc = "answered", !.result = Extracted[text].final_answer]
        ELSE IF ~Truthy(action) THEN stay
        ELSE IF ~IsDict(action) THEN [stay EXCEPT !.pc = "raised"]
        ELSE IF ran.raised
             THEN [stay EXCEPT !.pc = "raised", !.tools = <<PyName(tool_name)>>]
        ELSE [stay EXCEPT
                !.tools = <<PyName(tool_name)>>,
                !.messages = log \o << Msg("assistant", text),
                                       Msg("user", ObservationMarker \o ran.text) >>]

\* The loop ends without an answer: line 266.
CotExhaust ==
    /\ variant = "cot" /\ cot_pc = "loop" /\ i >= MaxIterations
    /\ cot_pc' = "exhausted"
    /\ cot_result' = ExhaustedMessage
    /\ UNCHANGED <<variant, messages, i, state, response, dispatched, llm_calls,
                   cot_sent, all_failed, fcVars, runs, prev, query, error>>

(***************************************************************************)
(* What the model client may stream (structured variant)                   *)
(***************************************************************************)
\* One entry of delta.tool_calls; arguments <<>> is None or "".
Delta(index, id, name, arguments) ==
    [index |-> index, id |-> id, name |-> name, arguments |-> arguments]
\* One chunk of the stream; content <<>> is None or "".
Chunk(content, tcs) == [content |-> content, tool_calls |-> tcs]

dCalcHead == Delta(0, "call_a", "calculator", <<"{", "'expression'">>)
dCalcTail == Delta(0, NoneName, NoneName, <<":", "'1+1'", "}">>)
dSearchBare == Delta(1, "call_b", "search", NoArgs)
dSearchName == Delta(1, "call_b", "search", <<>>)
dWrongCase == Delta(0, "call_c", "Calculator", ExprOk)
dThird == Delta(2, "call_d", "search", QueryOk)

Chunks ==
    { Chunk(<<"a">>, <<>>), Chunk(<<>>, <<>>),
      Chunk(<<>>, <<dCalcHead>>), Chunk(<<>>, <<dCalcTail>>),
      Chunk(<<>>, <<dSearchBare>>), Chunk(<<>>, <<dSearchName>>),
      Chunk(<<>>, <<dWrongCase>>), Chunk(<<>>, <<dThird>>),
      Chunk(<<"b">>, <<dSearchBare>>) }

\* The chunks of the runs on a reused agent.
FewChunks == { Chunk(<<"a">>, <<>>), Chunk(<<>>, <<dWrongCase>>) }

(***************************************************************************)
(* FunctionCallAgent: accumulation and dispatch                            *)
(***************************************************************************)
\* Lines 203-215 for one tool-call delta: [raised, calls]; raised is the
\* IndexError of tool_calls[tool_call.index].
Accumulate(calls, d) ==
    LET grown == IF Len(calls) <= d.index
                 THEN Append(calls, [id |-> d.id, type |-> "function",
                                     function |-> [name |-> d.name, arguments |-> <<>>]])
                 ELSE calls
    IN  IF d.arguments = <<>> THEN [raised |-> FALSE, calls |-> grown]
        ELSE IF d.index >= Len(grown) THEN [raised |-> TRUE, calls |-> grown]
        ELSE [raised |-> FALSE,
              calls |-> [grown EXCEPT ![d.index + 1].function.arguments =
                                          @ \o d.arguments]]

RECURSIVE AccumulateAll(_, _)
\* Line 202: the deltas of one chunk, in order; the first raise ends it.
AccumulateAll(calls, ds) ==
    IF ds = <<>> THEN [raised |-> FALSE, calls |-> calls]
    ELSE LET one == Accumulate(calls, Head(ds))
         IN  IF one.raised THEN one ELSE AccumulateAll(one.calls, Tail(ds))

\* The error text of lines 152-153.
ExecError(tool_name) ==
    ExecErrorPrefix \o <<tool_name>> \o ExecErrorInfix \o <<"exception">>

\* One pass of the loop body of _process_tool_calls (lines 133-160): what was
\* called, and the tool-role message appended to tool_responses.
ProcessOne(tc) ==
    LET tool_name == tc.function.name
        parsed == JsonLoads(tc.function.arguments)
        ran == ExecuteTool(tool_name, parsed.val)
        failed == ~parsed.ok \/ ran.raised
    IN  [reached |-> parsed.ok,
         invoked |-> IF parsed.ok THEN ran.invoked ELSE NoneName,
         failed |-> failed,
         message |-> [tool_call_id |-> tc.id, role |-> "tool", name |-> tool_name,
                      content |-> IF failed THEN ExecError(tool_name) ELSE ran.text]]

\* FunctionCallAgent._process_tool_calls(tool_calls), with what each pass did.
ProcessToolCalls(calls) == [k \in 1..Len(calls) |-> ProcessOne(calls[k])]

\* _process_tool_calls as it would be if the first failing call ended the loop.
ToolResponsesUntilFailure(calls) ==
    LET bad == { k \in 1..Len(calls) : ProcessOne(calls[k]).failed }
        last == IF bad = {} THEN Len(calls) ELSE Min(bad)
    IN  [k \in 1..last |-> ProcessOne(calls[k]).message]

\* The tool_responses list it returns.
ToolResponses(calls) == [k \in 1..Len(calls) |-> ProcessOne(calls[k]).message]

\* The assistant message of lines 227-240.
ToolCallMessage(calls) ==
    [role |-> "assistant", content |-> None,
     tool_calls |-> [k \in 1..Len(calls) |->
                        [id |-> calls[k].id, type |-> calls[k].type,
                         function |-> [name |-> calls[k].function.name,
                                       arguments |-> calls[k].function.arguments]]]]

\* Lines 217-250 as they would be if the log were cut back to the seed and
\* the latest round.
UpdatedHistoryWindowed(history, content, calls) ==
    LET seed == SubSeq(history, 1, 2)
        withText == IF content # <<>>
                    THEN Append(seed, Msg("assistant", content))
                    ELSE seed
    IN  IF calls # <<>>
        THEN Append(withText, ToolCallMessage(calls)) \o ToolResponses(calls)
        ELSE withText

\* conversation_history after lines 217-250.
UpdatedHistory(history, content, calls) ==
    LET withText == IF content # <<>>
                    THEN Append(history, Msg("assistant", content))
                    ELSE history
    IN  IF calls # <<>>
        THEN Append(withText, ToolCallMessage(calls)) \o ToolResponses(calls)
        ELSE withText

\* The end of the round as it would be if the text were tested before the tool
\* calls.
AfterRoundTextFirst(content, calls) ==
    IF content # <<>> THEN "answered" ELSE "loop"

\* Where control goes when the round's stream has ended: `continue` (line
\* 253), `return` (line 258), or the end of the loop body.
AfterRound(content, calls) ==
    IF calls # <<>> THEN "loop"
    ELSE IF content # <<>> THEN "answered"
    ELSE "loop"

(***************************************************************************)
(* FunctionCallAgent.run                                                   *)
(***************************************************************************)
\* Lines 169-174 as they would be if the log were kept and the query appended.
FcBeginKeepingLog(query_) ==
    /\ conversation_history' =
          IF conversation_history = <<>>
          THEN << Msg("system", SystemPromptFc), Msg("user", <<query_>>) >>
          ELSE Append(conversation_history, Msg("user", <<query_>>))
    /\ iteration' = 0
    /\ fc_pc' = "loop"
    /\ response_content' = <<>>
    /\ tool_calls' = <<>>
    /\ pending' = <<>>
    /\ deltas' = <<>>
    /\ yielded' = <<>>
    /\ executed' = <<>>
    /\ chunks' = 0
    /\ fc_calls' = 0
    /\ fc_sent' = <<>>
    /\ runs' = runs + 1
    /\ query' = query_
    /\ error' = "none"
    /\ UNCHANGED <<variant, cotVars>>

\* Lines 169-174, run when the consumer first advances the generator.
FcBegin(query_) ==
    /\ conversation_history' =
          << Msg("system", SystemPromptFc), Msg("user", <<query_>>) >>
    /\ iteration' = 0
    /\ fc_pc' = "loop"
    /\ response_content' = <<>>
    /\ tool_calls' = <<>>
    /\ pending' = <<>>
    /\ deltas' = <<>>
    /\ yielded' = <<>>
    /\ executed' = <<>>
    /\ chunks' = 0
    /\ fc_calls' = 0
    /\ fc_sent' = <<>>
    /\ runs' = runs + 1
    /\ query' = query_
    /\ error' = "none"
    /\ UNCHANGED <<variant, cotVars>>

\* agent.run(query) on the agent just constructed, iterated by its consumer.
FcRun(queries) ==
    /\ variant = "fc" /\ fc_pc = "idle"
    /\ \E q \in queries : FcBegin(q)
    /\ prev' = prev

\* Lines 175-190: the request is accepted and the round's accumulators start.
FcCreate ==
    /\ variant = "fc" /\ fc_pc = "loop" /\ iteration < MaxIterations
    /\ iteration' = iteration + 1
    /\ fc_calls' = fc_calls + 1
    /\ fc_sent' = conversation_history
    /\ response_content' = <<>>
    /\ tool_calls' = <<>>
    /\ deltas' = <<>>
    /\ yielded' = <<>>
    /\ executed' = <<>>
    /\ fc_pc' = "stream"
    /\ UNCHANGED <<variant, cotVars, conversation_history, pending, chunks, runs, prev, query, error>>

\* Line 180 raises: nothing in run catches it.
FcCreateFails ==
    /\ variant = "fc" /\ fc_pc = "loop" /\ iteration < MaxIterations
    /\ iteration' = iteration + 1
    /\ fc_calls' = fc_calls + 1
    /\ fc_sent' = conversation_history
    /\ fc_pc' = "raised"
    /\ error' = "APIError"
    /\ deltas' = <<>>
    /\ yielded' = <<>>
    /\ executed' = <<>>
    /\ UNCHANGED <<variant, cotVars, conversation_history, response_content,
                   tool_calls, pending, chunks, runs, prev, query>>

\* The deltas ds are accumulated (lines 201-215); an IndexError leaves run.
FcAccumulate(ds) ==
    LET acc == AccumulateAll(tool_calls, ds)
    IN  /\ deltas' = deltas \o ds
        /\ pending' = <<>>
        /\ tool_calls' = acc.calls
        /\ fc_pc' = IF acc.raised THEN "raised" ELSE "stream"
        /\ error' = IF acc.raised THEN "IndexError" ELSE "none"

\* Lines 196-198 as they would be if each text delta were put in the log as
\* it is yielded.
FcTextLoggedAtOnce(menu, limit) ==
    \E c \in menu :
        /\ variant = "fc" /\ fc_pc = "stream" /\ chunks < limit
        /\ c.content # <<>>
        /\ chunks' = chunks + 1
        /\ response_content' = response_content \o c.content
        /\ yielded' = Append(yielded, c.content)
        /\ pending' = c.tool_calls
        /\ fc_pc' = "yield"
        /\ conversation_history' =
              Append(conversation_history, Msg("assistant", c.content))
        /\ UNCHANGED <<variant, cotVars, iteration, tool_calls,
                       deltas, executed, fc_calls, fc_sent, runs, prev, query, error>>

\* A chunk with text arrives: the text is accumulated and yielded (lines
\* 196-198), and the generator is suspended there.
FcText(menu, limit) ==
    \E c \in menu :
        /\ variant = "fc" /\ fc_pc = "stream" /\ chunks < limit
        /\ c.content # <<>>
        /\ chunks' = chunks + 1
        /\ response_content' = response_content \o c.content
        /\ yielded' = Append(yielded, c.content)
        /\ pending' = c.tool_calls
        /\ fc_pc' = "yield"
        /\ UNCHANGED <<variant, cotVars, conversation_history, iteration, tool_calls,
                       deltas, executed, fc_calls, fc_sent, runs, prev, query, error>>

\* The consumer asks for the next fragment: the suspended chunk is finished.
FcResume ==
    /\ variant = "fc" /\ fc_pc = "yield"
    /\ FcAccumulate(pending)
    /\ UNCHANGED <<variant, cotVars, conversation_history, iteration, response_content,
                   yielded, executed, chunks, fc_calls, fc_sent, runs, prev, query>>

\* The consumer drops the generator while it is suspended at the yield.
FcClose ==
    /\ variant = "fc" /\ fc_pc = "yield"
    /\ fc_pc' = "closed"
    /\ UNCHANGED <<variant, cotVars, conversation_history, iteration, response_content,
                   tool_calls, pending, deltas, yielded, executed, chunks, fc_calls,
                   fc_sent, runs, prev, query, error>>

\* A chunk without text arrives (lines 201-215).
FcToolChunk(menu, limit) ==
    \E c \in menu :
        /\ variant = "fc" /\ fc_pc = "stream" /\ chunks < limit
        /\ c.content = <<>>
        /\ chunks' = chunks + 1
        /\ FcAccumulate(c.tool_calls)
        /\ UNCHANGED <<variant, cotVars, conversation_history, iteration,
                       response_content, yielded, executed, fc_calls, fc_sent, runs, prev,
                       query>>

\* Iterating the stream raises (line 192): nothing in run catches it.
FcStreamFails ==
    /\ variant = "fc" /\ fc_pc = "stream"
    /\ fc_pc' = "raised"
    /\ error' = "APIError"
    /\ UNCHANGED <<variant, cotVars, conversation_history, iteration, response_content,
                   tool_calls, pending, deltas, yielded, executed, chunks, fc_calls,
                   fc_sent, runs, prev, query>>

\* The stream ends: lines 217-258.
FcEndOfStream ==
    /\ variant = "fc" /\ fc_pc = "stream"
    /\ conversation_history' =
          UpdatedHistory(conversation_history, response_content, tool_calls)
    /\ executed' = ProcessToolCalls(tool_calls)
    /\ fc_pc' = AfterRound(response_content, tool_calls)
    /\ UNCHANGED <<variant, cotVars, iteration, response_content, tool_calls, pending,
                   deltas, yielded, chunks, fc_calls, fc_sent, runs, prev, query, error>>

\* Line 260 as it would be if the loop's end put an exhaustion message in the
\* log, as the free-text loop hands one back.
FcExhaustWithMessage ==
    /\ variant = "fc" /\ fc_pc = "loop" /\ iteration >= MaxIterations
    /\ fc_pc' = "exhausted"
    /\ conversation_history' =
          Append(conversation_history, Msg("assistant", ExhaustedMessage))
    /\ UNCHANGED <<variant, cotVars, iteration, response_content,
                   tool_calls, pending, deltas, yielded, executed, chunks, fc_calls,
                   fc_sent, runs, prev, query, error>>

\* The while condition fails: line 260.
FcExhaust ==
    /\ variant = "fc" /\ fc_pc = "loop" /\ iteration >= MaxIterations
    /\ fc_pc' = "exhausted"
    /\ UNCHANGED <<variant, cotVars, conversation_history, iteration, response_content,
                   tool_calls, pending, deltas, yielded, executed, chunks, fc_calls,
                   fc_sent, runs, prev, query, error>>

(***************************************************************************)
(* The caller: a second query on the same agent                            *)
(***************************************************************************)
CotEnded == cot_pc \in {"answered", "exhausted", "raised"}
FcEnded == fc_pc \in {"answered", "exhausted", "raised", "closed"}

\* agent.state = AgentState(): what __main__ does after each query (line
\* 286); run itself never replaces or clears self.state.
CotReset ==
    /\ variant = "cot" /\ CotEnded /\ state # FreshState
    /\ state' = FreshState
    /\ UNCHANGED <<variant, cot_pc, messages, i, cot_result, response, dispatched,
                   llm_calls, cot_sent, all_failed, fcVars, runs, prev, query, error>>

\* agent.run(query) again on the same agent (lines 202-209), after the reset
\* of __main__ or, for another caller, without it.
CotRerun ==
    /\ variant = "cot" /\ CotEnded /\ runs < MaxRuns
    /\ \E q \in Queries : CotBegin(q)
    /\ prev' = cot_pc

\* agent.run(query) again, as in the loop of __main__ (lines 272-279).
FcRerun ==
    /\ variant = "fc" /\ FcEnded /\ runs < MaxRuns
    /\ \E q \in Queries : FcBegin(q)
    /\ prev' = fc_pc

(***************************************************************************)
(* The specifications                                                      *)
(***************************************************************************)
\* CotAgent() or FunctionCallAgent(), before any run.
Init ==
    /\ variant \in {"cot", "fc"}
    /\ cot_pc = "idle"
    /\ messages = <<>>
    /\ i = 0
    /\ state = FreshState
    /\ cot_result = None
    /\ response = None
    /\ dispatched = <<>>
    /\ llm_calls = 0
    /\ cot_sent = <<>>
    /\ all_failed = TRUE
    /\ fc_pc = "idle"
    /\ conversation_history = <<>>
    /\ iteration = 0
    /\ response_content = <<>>
    /\ tool_calls = <<>>
    /\ pending = <<>>
    /\ deltas = <<>>
    /\ yielded = <<>>
    /\ executed = <<>>
    /\ chunks = 0
    /\ fc_calls = 0
    /\ fc_sent = <<>>
    /\ runs = 0
    /\ prev = "none"
    /\ query = "none"
    /\ error = "none"

\* One query on a fresh agent.
Next ==
    \/ CotRun({"q1"})
    \/ CotAnswer(CallLlm)
    \/ CotNoAction(CallLlm)
    \/ CotAct(CallLlm)
    \/ CotRaise(CallLlm)
    \/ CotExhaust
    \/ FcRun({"q1"})
    \/ FcCreate
    \/ FcCreateFails
    \/ FcText(Chunks, MaxChunks)
    \/ FcResume
    \/ FcClose
    \/ FcToolChunk(Chunks, MaxChunks)
    \/ FcStreamFails
    \/ FcEndOfStream
    \/ FcExhaust

Spec == Init /\ [][Next]_vars

\* Several queries, one after the other, on the same agent.
NextReuse ==
    \/ CotRun(Queries)
    \/ CotReset
    \/ CotRerun
    \/ CotAnswer(FewCompletions)
    \/ CotNoAction(FewCompletions)
    \/ CotAct(FewCompletions)
    \/ CotExhaust
    \/ FcRun(Queries)
    \/ FcRerun
    \/ FcCreate
    \/ FcCreateFails
    \/ FcText(FewChunks, FewMaxChunks)
    \/ FcResume
    \/ FcClose
    \/ FcToolChunk(FewChunks, FewMaxChunks)
    \/ FcStreamFails
    \/ FcEndOfStream
    \/ FcExhaust

SpecReuse == Init /\ [][NextReuse]_vars

\* FunctionCallAgent(), before any run.
InitFc == Init /\ variant = "fc"

\* One query on a fresh FunctionCallAgent.
NextFc ==
    \/ FcRun({"q1"})
    \/ FcCreate
    \/ FcCreateFails
    \/ FcText(Chunks, MaxChunks)
    \/ FcResume
    \/ FcClose
    \/ FcToolChunk(Chunks, MaxChunks)
    \/ FcStreamFails
    \/ FcEndOfStream
    \/ FcExhaust

\* The consumer keeps iterating the generator (the for loop of __main__, line
\* 278) or drops it, and every stream delivers its next chunk or ends: as long
\* as a step of the run is possible, one is taken.
SpecFc == InitFc /\ [][NextFc]_vars /\ WF_vars(NextFc)

(***************************************************************************)
(* Properties                                                              *)
(***************************************************************************)
ToolNames == { Tools[k] : k \in 1..Len(Tools) }
Occurs(symbol, text) == \E p \in 1..Len(text) : text[p] = symbol
StartsWith(text, prefix) ==
    Len(text) >= Len(prefix) /\ SubSeq(text, 1, Len(prefix)) = prefix
SeedLog(prompt) == << Msg("system", prompt), Msg("user", <<query>>) >>

\* C1: a run of the free-text loop in which no round finds a final answer
\* makes exactly 5 model calls, none after the fifth round, and returns the
\* exhaustion message, whether or not its rounds extracted an action.
C1_ExhaustsAfterFiveCalls ==
    variant = "cot" =>
        /\ llm_calls <= MaxIterations
        /\ (CotEnded /\ cot_pc # "answered") =>
              /\ cot_pc = "exhausted"
              /\ llm_calls = MaxIterations
              /\ cot_result = ExhaustedMessage

\* C2: a round of the free-text loop whose completion holds the final-answer
\* marker ends the run in that round with the stripped text after the marker
\* as the return value and without dispatching a tool, also when only
\* whitespace follows the marker and when an action block is present.
C2_MarkerEndsTheRun ==
    (variant = "cot" /\ response # None /\ Contains(response, FinalMarker)) =>
        /\ cot_pc = "answered"
        /\ cot_result = Strip(SliceFrom(response, Find(response, FinalMarker, 0) + 5))
        /\ dispatched = <<>>

\* C3: in both variants a dispatch under a name that is not exactly the name
\* of a configured tool runs no tool, does not raise and returns an error
\* text holding the name; the loop appends that text as the tool result (a
\* user-role observation, or a tool-role message) and goes on at the loop
\* head, where the next round starts while the budget lasts.
C3_UnknownToolIsFedBack ==
    /\ \A k \in 1..Len(dispatched) :
          LET d == dispatched[k]
          IN  d.name \notin ToolNames =>
                /\ d.invoked = NoneName
                /\ d.result # None
                /\ Occurs(d.name, d.result)
                /\ cot_pc \in {"loop", "exhausted"}
                /\ messages[Len(messages)] = Msg("user", ObservationMarker \o d.result)
                /\ messages[Len(messages) - 1] = Msg("assistant", response)
    /\ \A k \in 1..Len(executed) :
          LET e == executed[k]
              m == conversation_history[Len(conversation_history) - Len(executed) + k]
          IN  (e.reached /\ e.message.name \notin ToolNames) =>
                /\ e.invoked = NoneName
                /\ ~e.failed
                /\ Occurs(e.message.name, e.message.content)
                /\ StartsWith(e.message.content, NoToolPrefix)
                /\ fc_pc \in {"loop", "exhausted"}
                /\ m = e.message /\ m.role = "tool"

\* A free-text round has dispatched "Calculator", which is no tool's name.
C3_Witness ==
    /\ variant = "cot" /\ cot_pc = "loop"
    /\ Len(dispatched) = 1 /\ dispatched[1].name = "Calculator"

\* The fenced JSON is an object with a string "tool" and a mapping "tool_input".
WellFormedAction(a) ==
    /\ a.t = "obj"
    /\ "tool" \in DOMAIN a.o /\ a.o["tool"].t = "str"
    /\ "tool_input" \in DOMAIN a.o /\ a.o["tool_input"].t = "obj"

\* C4: a parse error of the free-text loop (no thought marker, no fence,
\* malformed fenced JSON, or fenced JSON that is no object with a string
\* "tool" and a mapping "tool_input") never makes run raise.
C4_ParseErrorsAreRecovered ==
    (variant = "cot" /\ response # None /\ ~WellFormedAction(Extracted[response].action))
        => cot_pc # "raised"

\* C5: in both variants a call of a configured tool that fails, whatever the
\* argument mapping, yields an error text and never an exception that leaves
\* the dispatch and the run.
C5_ToolFailuresBecomeText ==
    /\ \A k \in 1..Len(dispatched) :
          dispatched[k].name \in ToolNames =>
              dispatched[k].result # None /\ cot_pc # "raised"
    /\ \A k \in 1..Len(executed) :
          executed[k].message.name \in ToolNames =>
              /\ fc_pc # "raised"
              /\ executed[k].failed => executed[k].message.content # None

\* The deltas that arrived for index k in this round, in arrival order.
DeltasAt(k) == SelectSeq(deltas, LAMBDA d : d.index = k)
RECURSIVE Joined(_)
Joined(ds) == IF ds = <<>> THEN <<>> ELSE Head(ds).arguments \o Joined(Tail(ds))

\* C6: for every sequence of tool-call deltas of a round, whatever the indexes
\* and their order of arrival, accumulation does not raise, and the entry
\* for each index k carries the id and the name of the first delta of index k
\* and the concatenation of the argument fragments of the deltas of index k.
C6_AccumulatesByIndex ==
    variant = "fc" =>
        /\ error # "IndexError"
        /\ fc_pc = "stream" =>
              \A k \in { deltas[p].index : p \in 1..Len(deltas) } :
                  /\ k < Len(tool_calls)
                  /\ tool_calls[k + 1].id = Head(DeltasAt(k)).id
                  /\ tool_calls[k + 1].function.name = Head(DeltasAt(k)).name
                  /\ tool_calls[k + 1].function.arguments = Joined(DeltasAt(k))

\* C7: a round of the structured loop that accumulated n >= 1 tool calls adds
\* to the log one assistant message carrying the n calls and then exactly n
\* tool-role messages in call order, the k-th with the k-th call's id and
\* name; a call whose arguments are no valid JSON or whose tool raises gets an
\* error text, and the calls after it are still answered.
C7_OneToolMessagePerCall ==
    (variant = "fc" /\ fc_pc \in {"loop", "exhausted"} /\ iteration >= 1
        /\ tool_calls # <<>>) =>
        LET n == Len(tool_calls)
            h == conversation_history
            at == Len(fc_sent) + (IF response_content # <<>> THEN 1 ELSE 0) + 1
        IN  /\ Len(h) = at + n
            /\ SubSeq(h, 1, Len(fc_sent)) = fc_sent
            /\ h[at].role = "assistant"
            /\ "tool_calls" \in DOMAIN h[at]
            /\ Len(h[at].tool_calls) = n
            /\ \A k \in 1..n :
                  /\ h[at].tool_calls[k].id = tool_calls[k].id
                  /\ h[at].tool_calls[k].function = tool_calls[k].function
                  /\ h[at + k].role = "tool"
                  /\ h[at + k].tool_call_id = tool_calls[k].id
                  /\ h[at + k].name = tool_calls[k].function.name
                  /\ StartsWith(h[at + k].content, ExecErrorPrefix)
                        <=> (\/ ~JsonLoads(tool_calls[k].function.arguments).ok
                             \/ executed[k].failed)

\* A round ended with two calls: the first with arguments that are no JSON,
\* the second dispatched all the same.
C7_Witness ==
    /\ variant = "fc" /\ fc_pc = "loop" /\ Len(tool_calls) = 2
    /\ Len(executed) = 2
    /\ ~JsonLoads(tool_calls[1].function.arguments).ok
    /\ executed[2].reached

C9_FirstCallSeesOnlyTheSeed ==
    /\ (variant = "cot" /\ llm_calls = 1) => cot_sent = SeedLog(SystemPromptCot)
    /\ (variant = "fc" /\ fc_calls = 1) => fc_sent = SeedLog(SystemPromptFc)

\* The first model call of a second run, after a run the consumer abandoned.
C9_Witness ==
    /\ variant = "fc" /\ runs = 2 /\ prev = "closed" /\ fc_calls = 1

\* C10: a failure of the model call of a round of the structured loop, at the
\* request or while the stream is consumed, does not leave run as an
\* exception.
C10_ModelFailureIsAbsorbed ==
    variant = "fc" => ~(fc_pc = "raised" /\ error = "APIError")

\* C11: a run of the structured loop makes at most 5 model calls and always
\* comes to an end when its streams are finite and its consumer keeps
\* iterating; when 5 rounds have passed without the termination condition it
\* stops with no further model call, appending nothing to the log and
\* yielding nothing.
C11_BudgetStopsSilently ==
    /\ [](fc_calls <= MaxIterations)
    /\ [](fc_pc = "exhausted" => (iteration = MaxIterations /\ fc_calls = MaxIterations))
    /\ [][(fc_pc = "loop" /\ iteration >= MaxIterations) =>
             /\ fc_pc' = "exhausted"
             /\ fc_calls' = fc_calls
             /\ conversation_history' = conversation_history
             /\ yielded' = yielded]_vars
    /\ <>FcEnded

\* Five rounds passed, at least one of them with a tool call, and the run
\* stopped on the budget.
C11_Witness ==
    /\ variant = "fc" /\ fc_pc = "exhausted"
    /\ fc_calls = MaxIterations /\ Len(conversation_history) > 2

RECURSIVE Concat(_)
\* "".join(texts)
Concat(texts) == IF texts = <<>> THEN <<>> ELSE Head(texts) \o Concat(Tail(texts))

\* C12: within a round of the structured loop each text delta is yielded when
\* it arrives, in arrival order, and no further fragment is consumed before
\* the consumer resumes; the deltas yielded in the round, joined, are the
\* content of the assistant message the round appends; and until the stream
\* has ended nothing is appended to the log and no tool is dispatched, so a
\* consumer that stops mid-stream leaves the log as it was sent.
C12_YieldsBeforeLogging ==
    /\ [][(chunks' = chunks + 1 /\ response_content' # response_content) =>
             /\ fc_pc' = "yield"
             /\ Len(yielded') = Len(yielded) + 1
             /\ SubSeq(yielded', 1, Len(yielded)) = yielded
             /\ response_content' = response_content \o yielded'[Len(yielded')]]_vars
    /\ [][fc_pc = "yield" => chunks' = chunks]_vars
    /\ [](fc_pc \in {"stream", "yield", "closed", "raised"} =>
             /\ conversation_history = fc_sent
             /\ executed = <<>>)
    /\ []((fc_pc \in {"loop", "answered", "exhausted"} /\ iteration >= 1) =>
             /\ Concat(yielded) = response_content
             /\ yielded # <<>> =>
                   conversation_history[Len(fc_sent) + 1]
                       = Msg("assistant", Concat(yielded)))

\* The consumer stopped iterating in the second round, after a text delta of
\* that round was yielded to it.
C12_Witness ==
    /\ variant = "fc" /\ fc_pc = "closed" /\ iteration = 2
    /\ yielded # <<>> /\ Len(conversation_history) > 2

\* C13: a round of the free-text loop that finds no final answer and extracts
\* an action adds exactly two messages to the log, the assistant message
\* with the raw completion and then the user message with the observation
\* marker and the dispatch result, and goes on at the loop head.
C13_ActionRoundAddsTwoMessages ==
    (variant = "cot" /\ response # None
        /\ ~StrTruthy(Extracted[response].final_answer)
        /\ Truthy(Extracted[response].action)) =>
        /\ cot_pc \in {"loop", "exhausted"}
        /\ Len(messages) = Len(cot_sent) + 2
        /\ SubSeq(messages, 1, Len(cot_sent)) = cot_sent
        /\ messages[Len(messages) - 1] = Msg("assistant", response)
        /\ Len(dispatched) = 1
        /\ dispatched[1].result # None
        /\ messages[Len(messages)] =
              Msg("user", ObservationMarker \o dispatched[1].result)

\* The round that returned text found neither an answer nor an action.
NoActionRound(text) ==
    /\ text # None
    /\ ~StrTruthy(Extracted[text].final_answer)
    /\ ~Truthy(Extracted[text].action)

\* C14: a round of the free-text loop with no final answer and no extractable
\* action leaves the log, the recorded actions and the recorded observations
\* as they were, dispatches no tool and uses up one round of the budget; the
\* model call after it is sent the same message sequence as the call of that
\* round.
C14_NoActionRoundChangesNothing ==
    /\ [][(variant = "cot" /\ llm_calls' = llm_calls + 1 /\ NoActionRound(response')) =>
             /\ messages' = messages
             /\ state'.actions = state.actions
             /\ state'.observations = state.observations
             /\ dispatched' = <<>>
             /\ i' = i + 1
             /\ cot_pc' = "loop"
             /\ cot_sent' = messages]_vars
    /\ [][(variant = "cot" /\ llm_calls' = llm_calls + 1 /\ NoActionRound(response)) =>
             cot_sent' = cot_sent]_vars

\* A round without answer and action, after a round that dispatched a tool.
C14_Witness ==
    /\ variant = "cot" /\ cot_pc = "loop" /\ llm_calls >= 2
    /\ NoActionRound(response)
    /\ Len(messages) > 2 /\ state.actions # <<>>

\* C15: in the free-text loop a failed model call does not leave run as an
\* exception; its stand-in text is searched for an answer and an action like
\* a completion (a stand-in that holds the final-answer marker ends the run
\* with the text after it) and uses up one round; a run in which every call
\* fails with a text holding no marker and no fence makes exactly 5 calls
\* and returns the exhaustion message.
C15_FailedCallIsStandIn ==
    variant = "cot" =>
        /\ (response # None /\ IsStandIn(response)) =>
              /\ cot_pc # "raised" /\ error = "none"
              /\ i = llm_calls
              /\ messages = cot_sent
              /\ IF Contains(response, FinalMarker)
                 THEN /\ cot_pc = "answered"
                      /\ cot_result =
                            Strip(SliceFrom(response, Find(response, FinalMarker, 0) + 5))
                 ELSE cot_pc \in {"loop", "exhausted"}
        /\ (all_failed /\ CotEnded /\ ~Contains(response, FinalMarker)) =>
              /\ cot_pc = "exhausted"
              /\ llm_calls = MaxIterations
              /\ cot_result = ExhaustedMessage

\* Every call of the run failed, and the run ended on the budget.
C15_Witness ==
    /\ variant = "cot" /\ cot_pc = "exhausted"
    /\ all_failed /\ llm_calls = MaxIterations

\* C16: when run is called a second time on the same CotAgent, nothing that
\* the first query recorded is in the agent's state during or after the
\* second run: the thoughts, actions and observations there are those of the
\* second run's rounds, and final_answer is set only to the answer the second
\* run returned.
C16_NothingSurvivesAQuery ==
    (variant = "cot" /\ runs >= 2) =>
        /\ Len(state.thoughts) <= llm_calls
        /\ Len(state.actions) <= llm_calls
        /\ Len(state.observations) <= llm_calls
        /\ state.final_answer # None =>
              (cot_pc = "answered" /\ cot_result = state.final_answer)

\* C17: AgentState only records: after every round the loop is where the
\* loop without the AgentState steps would be, given the same log and the
\* same completion: the same return or failure, the same log for the next
\* model call, and the same tool dispatches.
C17_RecordingChangesNothing ==
    (variant = "cot" /\ response # None /\ cot_pc \in {"loop", "answered", "raised"}) =>
        LET bare == BareRound(cot_sent, response)
        IN  /\ cot_pc = bare.pc
            /\ cot_result = bare.result
            /\ messages = bare.messages
            /\ [k \in 1..Len(dispatched) |-> dispatched[k].name] = bare.tools

IsPrefix(a, b) == Len(a) <= Len(b) /\ SubSeq(b, 1, Len(a)) = a

\* C18: in both variants the log only grows at its end within a run: at every
\* step of a run the log before the step is a prefix of the log after it;
\* and each model call is sent the whole log as it stands at the call.
C18_LogIsAppendOnly ==
    /\ [][runs' = runs =>
             /\ IsPrefix(messages, messages')
             /\ IsPrefix(conversation_history, conversation_history')]_vars
    /\ [][llm_calls' = llm_calls + 1 => cot_sent' = messages]_vars
    /\ [][fc_calls' = fc_calls + 1 => fc_sent' = conversation_history]_vars

\* A later round of the structured loop added its messages to a log that
\* already held those of an earlier round.
C18_Witness ==
    /\ variant = "fc" /\ fc_pc = "loop" /\ iteration >= 2
    /\ Len(fc_sent) > 2 /\ Len(conversation_history) > Len(fc_sent)

\* The offsets (0-based) at which sub occurs in text.
OccursAt(text, sub) ==
    { p \in 0..(Len(text) - Len(sub)) : SubSeq(text, p + 1, p + Len(sub)) = sub }

\* The text between the first opening fence and the first closing fence
\* after it; None when either is missing.
FirstBlock(text) ==
    LET opens == OccursAt(text, FenceOpen)
        from == Min(opens) + Len(FenceOpen)
        closes == { q \in OccursAt(text, FenceClose) : q >= from }
    IN  IF opens = {} THEN None
        ELSE IF closes = {} THEN None
        ELSE SubSeq(text, from + 1, Min(closes))

\* json.loads of the stripped first block of each text the model may return.
FirstBlockParsed ==
    [text \in CallLlm |->
        IF FirstBlock(text) = None THEN [ok |-> FALSE, val |-> JNull]
        ELSE JsonLoads(Strip(FirstBlock(text)))]

\* The number of opening fences of each text the model may return.
OpeningFences == [text \in CallLlm |-> Cardinality(OccursAt(text, FenceOpen))]

\* C19: the action of a completion is decided by the first opening fence and
\* the first closing fence after it alone: when that block is missing or is
\* no valid JSON there is no action, whatever later blocks hold; when it is
\* valid JSON the action is what it holds, and a round that dispatches does
\* so under its tool name and with its argument mapping.
C19_FirstFenceDecides ==
    (variant = "cot" /\ response # None) =>
        LET parsed == FirstBlockParsed[response]
            action == Extracted[response].action
        IN  /\ ~parsed.ok => action = JNull
            /\ parsed.ok => action = parsed.val
            /\ ~Truthy(action) => dispatched = <<>>
            /\ dispatched # <<>> =>
                  /\ Len(dispatched) = 1
                  /\ JStr(dispatched[1].name) = ToolNameOf(parsed.val)
                  /\ state.actions[Len(state.actions)] =
                        [tool |-> dispatched[1].name,
                         tool_input |-> ToolInputOf(parsed.val)]

\* The completion held two fenced blocks, the first no valid JSON and the
\* second a valid action: the round found no action.
C19_Witness ==
    /\ variant = "cot" /\ cot_pc = "loop" /\ response # None
    /\ OpeningFences[response] = 2
    /\ Extracted[response].action = JNull
    /\ dispatched = <<>>

\* C20: at every round boundary of a run of the free-text loop on a fresh
\* AgentState (the loop head between rounds, and the return of run) there
\* are as many recorded observations as recorded actions, the k-th
\* observation names the tool and the arguments of the k-th action, the log
\* holds the two seed messages and two messages per recorded action,
\* assistant and user in turn, ending with a user message, and final_answer
\* is set only when run returned that answer.
C20_StateAndLogAgree ==
    (variant = "cot" /\ cot_pc \in {"loop", "answered", "exhausted"}) =>
        LET n == Len(state.actions)
        IN  /\ Len(state.observations) = n
            /\ \A k \in 1..n :
                  state.observations[k].tool_calls =
                      <<[name |-> state.actions[k].tool,
                         arguments |-> state.actions[k].tool_input]>>
            /\ Len(messages) = 2 + 2 * n
            /\ messages[1].role = "system" /\ messages[2].role = "user"
            /\ \A k \in 1..n :
                  /\ messages[2 * k + 1].role = "assistant"
                  /\ messages[2 * k + 2].role = "user"
            /\ messages[Len(messages)].role = "user"
            /\ state.final_answer # None =>
                  (cot_pc = "answered" /\ cot_result = state.final_answer)

\* The loop head after two rounds that dispatched a tool.
C20_Witness ==
    /\ variant = "cot" /\ cot_pc = "loop"
    /\ Len(state.actions) = 2 /\ Len(messages) = 6

====
